---- MODULE Spec2Model ----
(***************************************************************************)
(* The signup page of BillyBot: SignupPage and its submit handler           *)
(* handleSubmit, in its two variants.                                       *)
(*   variant "A": src/unnamed/part_000       (email, password, business)    *)
(*   variant "B": src/app/signup/page.tsx    (adds the mobile field)        *)
(*                                                                          *)
(* Strings the code inspects character by character (the four form fields)  *)
(* are sequences of one-character strings; messages and paths, which the    *)
(* code only passes on or tests for emptiness, are plain strings.           *)
(*                                                                          *)
(* React state: a setX(v) call changes the hook's state (the variables      *)
(* email .. isSubmitting); what the event handlers' closures read and what  *)
(* the DOM shows (the disabled attributes) is the state as of the last      *)
(* render, the variable rendered.  Render is a step of its own.             *)
(***************************************************************************)
EXTENDS Integers, Sequences, FiniteSets, TLC

VARIABLES
  variant,        \* "A" or "B": which of the two page files is running
  mounted,        \* the page is still on screen
  email,          \* useState('')  email
  password,       \* useState('')  password
  mobile,         \* useState('')  mobile (variant B only)
  businessName,   \* useState('')  businessName
  error,          \* useState('')  error
  isSubmitting,   \* useState(false)  isSubmitting
  rendered,       \* the field values and isSubmitting as of the last render
  route,          \* the path last handed to router.push, "" before any
  att,            \* att[i]: a run of handleSubmit that is under way
  lastStep        \* when the latest step was a step of a run: what the run
                  \* received and did in it

vars == <<variant, mounted, email, password, mobile, businessName, error,
          isSubmitting, rendered, route, att, lastStep>>

----------------------------------------------------------------------------
(* Bounds of the model *)

\* runs of handleSubmit that can be under way at the same time
MaxRuns == 2

\* the longest run of digits among the mobile numbers of MobileSpec
MaxDigits == 17

(* Program constants *)

\* password.length < 8
MinPasswordLength == 8
\* \d{7,14}
PhoneMinMoreDigits == 7
PhoneMaxMoreDigits == 14

----------------------------------------------------------------------------
(* Strings *)

\* n copies of the character c
Rep(c, n) == [k \in 1..n |-> c]

\* what JavaScript's \s and String.prototype.trim treat as white space
\* (the representatives a form field can receive)
WhiteSpace == {" ", "\t", "\n"}

Digits == {"0", "1", "2", "3", "4", "5", "6", "7", "8", "9"}

RECURSIVE TrimStart(_)
TrimStart(s) ==
  IF s # <<>> /\ Head(s) \in WhiteSpace THEN TrimStart(Tail(s)) ELSE s

RECURSIVE TrimEnd(_)
TrimEnd(s) ==
  IF s # <<>> /\ s[Len(s)] \in WhiteSpace
    THEN TrimEnd(SubSeq(s, 1, Len(s) - 1))
    ELSE s

\* String.prototype.trim
Trim(s) == TrimEnd(TrimStart(s))

IsSeparator(c) == c \in WhiteSpace \cup {"(", ")", "-"}

\* trimmedMobile.replace(/[\s()-]/g, '')
NormalizeMobile(trimmedMobile) ==
  SelectSeq(trimmedMobile, LAMBDA c : ~IsSeparator(c))

\* the digits the pattern may repeat after the leading one: \d{7,14}
PatternMoreDigits == PhoneMinMoreDigits..PhoneMaxMoreDigits

\* the mutated pattern  \d{7,15}
PatternMoreDigitsOneMore == PhoneMinMoreDigits..(PhoneMaxMoreDigits + 1)

\* /^\+?[1-9]\d{7,14}$/.test(s): the pattern is matched from the left, s[p]
\* being the character after the optional '+'
PhonePatternTestWith(s, more) ==
  \E p \in {1, 2} :
    /\ p = 2 => (Len(s) >= 1 /\ s[1] = "+")
    /\ Len(s) >= p
    /\ s[p] \in Digits \ {"0"}
    /\ \E k \in more :
         /\ Len(s) = p + k
         /\ \A j \in (p + 1)..(p + k) : s[j] \in Digits

PhonePatternTestMutant(s) == PhonePatternTestWith(s, PatternMoreDigitsOneMore)

PhonePatternTest(s) == PhonePatternTestWith(s, PatternMoreDigits)

----------------------------------------------------------------------------
(* Messages and paths *)

MsgEmailRequired   == "Email is required."
MsgPasswordShort   == "Password must be at least 8 characters."
MsgMobileRequired  == "Mobile is required."
MsgMobileInvalid   == "Please enter a valid mobile number."
MsgSignUpFallback  == "Unable to create your account. Please try again."
MsgUpsertFallback  == "Your account was created, but setup failed. Please try logging in."
MsgUnexpected      == "Something went wrong. Please try again."

PathAccountSetup == "/account/setup"
PathCheckEmail   == "/signup/check-email"

----------------------------------------------------------------------------
(* The collaborators' answers *)

\* an `error` of a response: null (present = FALSE) or { message }
NoError == [present |-> FALSE, message |-> ""]

Errors ==
  {NoError,
   [present |-> TRUE, message |-> ""],
   [present |-> TRUE, message |-> "User already registered"]}

\* data.user: null, a user whose id is missing or empty, a user with an id
Users == {"null", "noId", "withId"}

\* what `await supabase.auth.signUp(...)` settles with: it throws, or it
\* returns { data: { user, session }, error }
SignUpThrows == [threw |-> TRUE, user |-> "null", session |-> FALSE, error |-> NoError]

SignUpResponses ==
  {SignUpThrows} \cup
  [threw : {FALSE}, user : Users, session : BOOLEAN, error : Errors]

\* what `await supabase.from('clients').upsert(payload)` settles with
UpsertThrows == [threw |-> TRUE, error |-> NoError]

UpsertResponses == {UpsertThrows} \cup [threw : {FALSE}, error : Errors]

\* before the call has settled
NoSignUpResponse == [threw |-> FALSE, user |-> "null", session |-> FALSE, error |-> NoError]
NoUpsertResponse == [threw |-> FALSE, error |-> NoError]

\* user?.id ("" when there is none)
UserId(user) == IF user = "withId" THEN "user-1" ELSE ""

----------------------------------------------------------------------------
(* One run of handleSubmit *)

\* pc: "unused"   no run (a free slot of att)
\*     "invalid"  it returned from a validation rule
\*     "signUp"   it is suspended at `await signUpWithEmail(...)` (variant A:
\*                `await supabase.auth.signUp(...)`)
\*     "upsert"   it is suspended at `await supabase.from('clients').upsert`
\*     "settled"  its try / catch / finally has completed
\* trimmedBusinessName and signUpResponse are locals of the run; the other
\* fields record what the run has done so far.  A run that has ended
\* ("invalid", "settled") leaves att: lastStep.result keeps its record until
\* the next step of a run.
NewAttempt ==
  [pc                  |-> "unused",
   trimmedBusinessName |-> <<>>,
   signUpResponse      |-> NoSignUpResponse,
   outstanding         |-> <<>>,   \* the remote calls issued and not yet settled
   nSignUp             |-> 0,      \* signUp calls issued
   nUpsert             |-> 0,      \* upsert calls issued
   navs                |-> <<>>,   \* argument of each router.push that returned
   errors              |-> <<>>,   \* argument of each setError call
   flags               |-> <<>>,   \* argument of each setIsSubmitting call
   escaped             |-> FALSE]  \* an exception left handleSubmit

Attempts == 1..MaxRuns

SetError(a, m) == [a EXCEPT !.errors = Append(@, m)]

SetIsSubmitting(a, b) == [a EXCEPT !.flags = Append(@, b)]

\* mutant: the fallback is missing (error.message alone)
MessageOnly(err, fallback) == err.message

\* error.message || fallback
MessageOr(err, fallback) == IF err.message # "" THEN err.message ELSE fallback

\* mutant: the password rule comes before the email rule
ValidationErrorPasswordFirst(v, em, pw, mo) ==
  IF Len(pw) < MinPasswordLength THEN MsgPasswordShort
  ELSE IF Trim(em) = <<>> THEN MsgEmailRequired
  ELSE IF v = "B" /\ Trim(mo) = <<>> THEN MsgMobileRequired
  ELSE IF v = "B" /\ ~PhonePatternTest(NormalizeMobile(Trim(mo)))
    THEN MsgMobileInvalid
  ELSE ""

\* the validation rules of handleSubmit, in the order of the code: the message
\* of the rule that returns, "" when none does
ValidationError(v, em, pw, mo) ==
  IF Trim(em) = <<>> THEN MsgEmailRequired
  ELSE IF Len(pw) < MinPasswordLength THEN MsgPasswordShort
  ELSE IF v = "B" /\ Trim(mo) = <<>> THEN MsgMobileRequired
  ELSE IF v = "B" /\ ~PhonePatternTest(NormalizeMobile(Trim(mo)))
    THEN MsgMobileInvalid
  ELSE ""

\* the argument of supabase.auth.signUp (options.phone in variant B only)
SignUpArgs(v, em, pw, mo) ==
  [email    |-> Trim(em),
   password |-> pw,
   hasPhone |-> v = "B",
   phone    |-> IF v = "B" THEN NormalizeMobile(Trim(mo)) ELSE <<>>]

\* const payload = { id: userId }; business_name only when non-empty
Payload(userId, trimmedBusinessName) ==
  [id              |-> userId,
   hasBusinessName |-> trimmedBusinessName # <<>>,
   business_name   |-> trimmedBusinessName]

\* await supabase.auth.signUp(args): the call is issued, the run suspends
CallSignUp(a, args) ==
  [a EXCEPT !.pc = "signUp",
            !.nSignUp = @ + 1,
            !.outstanding = Append(@, [fn |-> "signUp", arg |-> args])]

\* await supabase.from('clients').upsert(payload)
CallUpsert(a, payload) ==
  [a EXCEPT !.pc = "upsert",
            !.nUpsert = @ + 1,
            !.outstanding = Append(@, [fn |-> "upsert", arg |-> payload])]

\* the awaited call has settled
Returned(a, fn) ==
  [a EXCEPT !.outstanding = SelectSeq(@, LAMBDA c : c.fn # fn)]

\* the result of running a piece of the try block: the run so far, whether an
\* exception is propagating, whether the run is suspended at an await
Ran(a)       == [att |-> a, thrown |-> FALSE, suspended |-> FALSE]
Threw(a)     == [att |-> a, thrown |-> TRUE,  suspended |-> FALSE]
Suspended(a) == [att |-> a, thrown |-> FALSE, suspended |-> TRUE]

\* } catch { setError('Something went wrong. Please try again.'); }
CatchClause(res) ==
  IF res.thrown
    THEN [res EXCEPT !.att = SetError(@, MsgUnexpected), !.thrown = FALSE]
    ELSE res

\* mutant: the finally block is missing
NoFinallyClause(res) == res

\* } finally { setIsSubmitting(false); }
FinallyClause(res) ==
  IF res.suspended THEN res
  ELSE [res EXCEPT !.att = SetIsSubmitting(@, FALSE)]

\* the run after try / catch / finally: suspended at the next await, or ended
Leave(res) ==
  IF res.suspended THEN res.att
  ELSE [res.att EXCEPT !.pc = "settled", !.escaped = res.thrown]

\* try { ... } catch { ... } finally { ... } around a piece of the try block
TryCatchFinally(res) == Leave(FinallyClause(CatchClause(res)))

\* the start of handleSubmit, up to the first return or the first await
SubmitBody(a, v, r) ==
  LET a0  == SetError(a, "")
      msg == ValidationError(v, r.email, r.password, r.mobile)
  IN IF msg # ""
       THEN [SetError(a0, msg) EXCEPT !.pc = "invalid"]
       ELSE TryCatchFinally(Suspended(
              CallSignUp([SetIsSubmitting(a0, TRUE) EXCEPT
                            !.trimmedBusinessName = Trim(r.businessName)],
                         SignUpArgs(v, r.email, r.password, r.mobile))))

\* mutant: the check of userId is missing
ProceedsToUpsertNoIdCheck(resp) == ~resp.error.present

\* if (signUpError) return;  const userId = user?.id;  if (!userId) return;
\* what lets the run go on to the upsert
ProceedsToUpsert(resp) == ~resp.error.present /\ UserId(resp.user) # ""

\* the try block from the return of signUp to the upsert call
TryAfterSignUp(a, resp) ==
  IF resp.threw THEN Threw(a)
  ELSE IF resp.error.present
    THEN Ran(SetError(a, MessageOr(resp.error, MsgSignUpFallback)))
  ELSE IF ~ProceedsToUpsert(resp)
    THEN Ran(SetError(a, MsgSignUpFallback))
  ELSE Suspended(CallUpsert([a EXCEPT !.signUpResponse = resp],
                            Payload(UserId(resp.user), a.trimmedBusinessName)))

\* router.push(path): it returns, or it throws
Push(a, path, pushThrows) ==
  IF pushThrows THEN Threw(a)
  ELSE Ran([a EXCEPT !.navs = Append(@, path)])

\* mutant: the `return` after router.push('/account/setup') is missing
NavigateNoReturn(a, sessionExists, pushThrows) ==
  IF sessionExists
    THEN LET first == Push(a, PathAccountSetup, pushThrows)
         IN IF first.thrown THEN first
            ELSE Push(first.att, PathCheckEmail, pushThrows)
    ELSE Push(a, PathCheckEmail, pushThrows)

\* if (sessionExists) { router.push('/account/setup'); return; }
\* router.push('/signup/check-email');
Navigate(a, sessionExists, pushThrows) ==
  IF sessionExists
    THEN Push(a, PathAccountSetup, pushThrows)
    ELSE Push(a, PathCheckEmail, pushThrows)

\* mutant: a failed upsert is tried again
TryAfterUpsertRetry(a, up, pushThrows) ==
  IF up.threw THEN Threw(a)
  ELSE IF up.error.present
    THEN Suspended(CallUpsert(a, Payload(UserId(a.signUpResponse.user),
                                         a.trimmedBusinessName)))
  ELSE Navigate(a, a.signUpResponse.session, pushThrows)

\* the try block from the return of the upsert to its end
TryAfterUpsert(a, up, pushThrows) ==
  IF up.threw THEN Threw(a)
  ELSE IF up.error.present
    THEN Ran(SetError(a, MessageOr(up.error, MsgUpsertFallback)))
  ELSE Navigate(a, a.signUpResponse.session, pushThrows)

----------------------------------------------------------------------------
(* The page *)

\* what a render hands to the handlers' closures and to the DOM
Snapshot ==
  [email        |-> email,
   password     |-> password,
   mobile       |-> mobile,
   businessName |-> businessName,
   isSubmitting |-> isSubmitting]

\* disabled={isSubmitting} on the inputs and on the submit button
ControlsDisabled == rendered.isSubmitting

Last(q) == q[Len(q)]

\* the hook state after a step of run i that took att[i] to b: the last value
\* the step passed to the setter (the setters of a page that is gone do nothing)
StateAfter(old, before, after) ==
  IF mounted /\ Len(after) > Len(before) THEN Last(after) ELSE old

Ended(a) == a.pc \in {"invalid", "settled"}

\* lastStep: which run moved last, at which point of handleSubmit, what the
\* collaborators answered there, and the run's record after the step
StepRecord(i, at, resp, up, pushThrows, b) ==
  [run |-> i, at |-> at, signUp |-> resp, upsert |-> up,
   pushThrows |-> pushThrows, result |-> b]

NoStep ==
  StepRecord(0, "none", NoSignUpResponse, NoUpsertResponse, FALSE, NewAttempt)

\* a step of run i, at the point `at` of handleSubmit, that takes the run's
\* record from `before` to b
Step(i, at, resp, up, pushThrows, before, b) ==
  /\ lastStep' = StepRecord(i, at, resp, up, pushThrows, b)
  /\ att' = [att EXCEPT ![i] = IF Ended(lastStep'.result)
                                 THEN NewAttempt
                                 ELSE lastStep'.result]
  /\ error' = StateAfter(error, before.errors, lastStep'.result.errors)
  /\ isSubmitting' = StateAfter(isSubmitting, before.flags, lastStep'.result.flags)
  /\ route' = IF Len(lastStep'.result.navs) > Len(before.navs)
                THEN Last(lastStep'.result.navs)
                ELSE route

\* the page with the given field values, rendered, before any submission
Page(v, em, pw, mo, bn) ==
  /\ variant = v
  /\ mounted = TRUE
  /\ email = em
  /\ password = pw
  /\ mobile = mo
  /\ businessName = bn
  /\ error = ""
  /\ isSubmitting = FALSE
  /\ rendered = Snapshot
  /\ route = ""
  /\ att = [i \in Attempts |-> NewAttempt]
  /\ lastStep = NoStep

\* the page as constructed: every useState starts from '' (false)
Construct == \E v \in {"A", "B"} : Page(v, <<>>, <<>>, <<>>, <<>>)

\* onChange of the email input: setEmail(event.target.value)
EditEmail(v) ==
  /\ mounted /\ ~ControlsDisabled
  /\ email' = v
  /\ lastStep' = NoStep
  /\ UNCHANGED <<variant, mounted, password, mobile, businessName, error,
                 isSubmitting, rendered, route, att>>

EditPassword(v) ==
  /\ mounted /\ ~ControlsDisabled
  /\ password' = v
  /\ lastStep' = NoStep
  /\ UNCHANGED <<variant, mounted, email, mobile, businessName, error,
                 isSubmitting, rendered, route, att>>

\* the mobile input exists in variant B only
EditMobile(v) ==
  /\ mounted /\ ~ControlsDisabled
  /\ variant = "B"
  /\ mobile' = v
  /\ lastStep' = NoStep
  /\ UNCHANGED <<variant, mounted, email, password, businessName, error,
                 isSubmitting, rendered, route, att>>

EditBusinessName(v) ==
  /\ mounted /\ ~ControlsDisabled
  /\ businessName' = v
  /\ lastStep' = NoStep
  /\ UNCHANGED <<variant, mounted, email, password, mobile, error,
                 isSubmitting, rendered, route, att>>

\* React renders the page again with the current state
Render ==
  /\ mounted
  /\ rendered # Snapshot
  /\ rendered' = Snapshot
  /\ lastStep' = NoStep
  /\ UNCHANGED <<variant, mounted, email, password, mobile, businessName,
                 error, isSubmitting, route, att>>

\* the slot a new run takes
FreeSlot(i) ==
  /\ att[i].pc = "unused"
  /\ \A j \in Attempts : j < i => att[j].pc # "unused"

\* a submit event of the form: handleSubmit runs to its first return or await.
\* The form can be submitted while its submit button is enabled.
HandleSubmit(i) ==
  /\ mounted /\ ~ControlsDisabled
  /\ FreeSlot(i)
  /\ Step(i, "submit", NoSignUpResponse, NoUpsertResponse, FALSE, NewAttempt,
          SubmitBody(NewAttempt, variant, rendered))
  /\ UNCHANGED <<variant, mounted, email, password, mobile, businessName,
                 rendered>>

\* the signUp call of run i settles and the run goes on
SignUpSettles(i, resp) ==
  /\ att[i].pc = "signUp"
  /\ Step(i, "signUp", resp, NoUpsertResponse, FALSE, att[i],
          TryCatchFinally(TryAfterSignUp(Returned(att[i], "signUp"), resp)))
  /\ UNCHANGED <<variant, mounted, email, password, mobile, businessName,
                 rendered>>

\* router.push is reached only when the upsert returned no error
PushOutcomes(up) == IF up.threw \/ up.error.present THEN {FALSE} ELSE BOOLEAN

\* the upsert call of run i settles and the run goes on
UpsertSettles(i, up, pushThrows) ==
  /\ att[i].pc = "upsert"
  /\ Step(i, "upsert", att[i].signUpResponse, up, pushThrows, att[i],
          TryCatchFinally(
            TryAfterUpsert(Returned(att[i], "upsert"), up, pushThrows)))
  /\ UNCHANGED <<variant, mounted, email, password, mobile, businessName,
                 rendered>>

\* the navigation a router.push started completes: the page is left
Unmount ==
  /\ mounted
  /\ route # ""
  /\ mounted' = FALSE
  /\ lastStep' = NoStep
  /\ UNCHANGED <<variant, email, password, mobile, businessName, error,
                 isSubmitting, rendered, route, att>>

----------------------------------------------------------------------------
(* Specifications *)

\* a mobile number as typed, with separators
TypedMobile ==
  <<"+", "6", "1", " ", "4", "0", "0", "-", "1", "1", "1", "-", "2", "2", "2">>

\* Spec: the submissions of a form the user has filled in.  The fields hold
\* any of these values; the runs of handleSubmit, the renders and the
\* navigation interleave freely.
EmailValues    == {<<>>, <<" ", "a", "@", "b", " ">>}
PasswordValues == {<<>>, Rep("p", MinPasswordLength)}
MobileValues   == {<<>>, TypedMobile}
BusinessValues == {<<>>, <<"A", "c", "m", "e", " ">>}

Init ==
  \E v \in {"A", "B"}, em \in EmailValues, pw \in PasswordValues,
     bn \in BusinessValues :
    \E mo \in (IF v = "B" THEN MobileValues ELSE {<<>>}) :
      Page(v, em, pw, mo, bn)

Next ==
  \/ Render
  \/ \E i \in Attempts : HandleSubmit(i)
  \/ \E i \in Attempts, resp \in SignUpResponses : SignUpSettles(i, resp)
  \/ \E i \in Attempts, up \in UpsertResponses :
       \E pushThrows \in PushOutcomes(up) : UpsertSettles(i, up, pushThrows)
  \/ Unmount

Spec == Init /\ [][Next]_vars

\* FormSpec: the form from its construction, filled in field by field and
\* submitted; the remote calls stay outstanding.
TypedEmails    == {<<>>, <<" ", "\t">>, <<" ", "a", "@", "b", " ">>}
TypedPasswords == {<<>>, Rep(" ", MinPasswordLength - 1), Rep(" ", MinPasswordLength)}
TypedMobiles   ==
  {<<>>, <<" ", "\n">>,
   <<"0", "4", "0", "0", " ", "1", "1", "1", " ", "2", "2", "2">>,
   TypedMobile}

FormNext ==
  \/ \E v \in TypedEmails : EditEmail(v)
  \/ \E v \in TypedPasswords : EditPassword(v)
  \/ \E v \in TypedMobiles : EditMobile(v)
  \/ \E v \in BusinessValues : EditBusinessName(v)
  \/ Render
  \/ \E i \in Attempts : HandleSubmit(i)

FormSpec == Construct /\ [][FormNext]_vars

\* FairSpec: a form that passes validation, submitted any number of times,
\* where every outstanding remote call eventually returns or throws and React
\* eventually renders a changed state.

\* one response of each collaborator for every path the code after the call
\* can take
SignUpPaths ==
  {SignUpThrows,
   [threw |-> FALSE, user |-> "withId", session |-> TRUE,
    error |-> [present |-> TRUE, message |-> "User already registered"]],
   [threw |-> FALSE, user |-> "null", session |-> FALSE, error |-> NoError],
   [threw |-> FALSE, user |-> "withId", session |-> FALSE, error |-> NoError],
   [threw |-> FALSE, user |-> "withId", session |-> TRUE, error |-> NoError]}

UpsertPaths ==
  {UpsertThrows,
   [threw |-> FALSE, error |-> [present |-> TRUE, message |-> ""]],
   [threw |-> FALSE, error |-> NoError]}

\* the promise run i awaits settles
Settles(i) ==
  \/ \E resp \in SignUpPaths : SignUpSettles(i, resp)
  \/ \E up \in UpsertPaths :
       \E pushThrows \in PushOutcomes(up) : UpsertSettles(i, up, pushThrows)

FairInit ==
  \E v \in {"A", "B"} :
    Page(v, <<"a">>, Rep("p", MinPasswordLength),
         IF v = "B" THEN TypedMobile ELSE <<>>, <<>>)

FairNext ==
  \/ Render
  \/ \E i \in Attempts : HandleSubmit(i)
  \/ \E i \in Attempts : Settles(i)
  \/ Unmount

\* React re-renders after a state change, and every awaited promise settles
Fairness ==
  /\ WF_vars(Render)
  /\ \A i \in Attempts : WF_vars(Settles(i))

FairSpec == FairInit /\ [][FairNext]_vars /\ Fairness

\* MobileSpec: variant B with a valid email and password and any of the
\* mobile numbers below, submitted.
ExampleRejected ==
  <<"0", "4", "0", "0", " ", "1", "1", "1", " ", "2", "2", "2">>
ExampleAccepted ==
  <<"+", "6", "1", "4", "0", "0", "1", "1", "1", "2", "2", "2">>

DigitRuns == {Rep("7", n) : n \in 0..MaxDigits}

MobilePrefixes ==
  {<<>>, <<"+">>, <<" ", "+">>, <<"(", "+">>, <<"0">>, <<"+", "0">>,
   <<"+", "+">>, <<"7", "+">>, <<"7", "a">>, <<"\t", "(", "0", "4", ")", " ">>}

MobileSuffixes == {<<>>, <<" ">>, <<"-", "2", "\n">>, <<"x">>, <<"+">>}

MobileInputs ==
  {ExampleRejected, ExampleAccepted, TypedMobile} \cup
  {pre \o run \o suf :
     pre \in MobilePrefixes, run \in DigitRuns, suf \in MobileSuffixes}

MobileInit ==
  \E mo \in MobileInputs :
    Page("B", <<"a", "@", "b">>, Rep("p", MinPasswordLength), mo, <<>>)

MobileNext == \E i \in Attempts : HandleSubmit(i)

MobileSpec == MobileInit /\ [][MobileNext]_vars

----------------------------------------------------------------------------
(* The claims *)

\* C8 (mobile variant): validation accepts a mobile string exactly when, with
\* all white space and every '(', ')' and '-' removed, it is an optional '+',
\* a digit 1-9 and 7 to 14 more digits (8 to 15 digits in all); an accepted
\* number is passed to signUp as options.phone in that normalized form;
\* "0400 111 222" is rejected with "Please enter a valid mobile number." and
\* "+61400111222" is accepted and passed unchanged.
C8_Stripped(m) ==
  SelectSeq(m, LAMBDA c : c \notin {" ", "\t", "\n", "(", ")", "-"})

C8_DigitsOf(n) == IF n # <<>> /\ n[1] = "+" THEN Tail(n) ELSE n

C8_WellFormed(m) ==
  LET d == C8_DigitsOf(C8_Stripped(m))
  IN /\ Len(d) >= 8 /\ Len(d) <= 15
     /\ \A k \in 1..Len(d) : d[k] \in Digits
     /\ d[1] # "0"

C8_Blank(m) == \A k \in 1..Len(m) : m[k] \in {" ", "\t", "\n"}

C8_MobileAccepted ==
  lastStep.at = "submit" =>
    LET m == rendered.mobile
        R == lastStep.result
    IN /\ (R.pc = "signUp") <=> C8_WellFormed(m)
       /\ C8_WellFormed(m) =>
            /\ Len(R.outstanding) = 1
            /\ R.outstanding[1].fn = "signUp"
            /\ R.outstanding[1].arg.hasPhone
            /\ R.outstanding[1].arg.phone = C8_Stripped(m)
       /\ (~C8_WellFormed(m) /\ ~C8_Blank(m)) =>
            /\ R.pc = "invalid"
            /\ R.errors = <<"", MsgMobileInvalid>>
       /\ m = ExampleRejected => R.errors = <<"", MsgMobileInvalid>>
       /\ m = ExampleAccepted =>
            /\ R.pc = "signUp"
            /\ R.outstanding[1].arg.phone = ExampleAccepted

\* a number of 15 digits with separators has been accepted and sent
C8_Witness ==
  /\ lastStep.at = "submit"
  /\ lastStep.result.pc = "signUp"
  /\ Len(rendered.mobile) > 15 + 1
  /\ Len(lastStep.result.outstanding[1].arg.phone) = 15 + 1

\* C4: validation gates all network activity.  When a rule fails (email empty
\* after trim; password shorter than 8; in the mobile variant mobile empty
\* after trim, then mobile format invalid, in that order), the error shown is
\* the message of the first failing rule alone, the attempt issues neither
\* signUp nor upsert nor a navigation, and isSubmitting stays false.
C4_Rules ==
  <<[fails |-> C8_Blank(rendered.email), msg |-> MsgEmailRequired],
    [fails |-> Len(rendered.password) < 8, msg |-> MsgPasswordShort],
    [fails |-> variant = "B" /\ C8_Blank(rendered.mobile),
     msg |-> MsgMobileRequired],
    [fails |-> variant = "B" /\ ~C8_WellFormed(rendered.mobile),
     msg |-> MsgMobileInvalid]>>

C4_Failing == {k \in 1..4 : C4_Rules[k].fails}

C4_ValidationGates ==
  (lastStep.at = "submit" /\ C4_Failing # {}) =>
    LET first == CHOOSE k \in C4_Failing : \A j \in C4_Failing : k <= j
        R == lastStep.result
    IN /\ R.pc = "invalid"
       /\ R.errors = <<"", C4_Rules[first].msg>>
       /\ error = C4_Rules[first].msg
       /\ R.nSignUp = 0 /\ R.nUpsert = 0 /\ R.outstanding = <<>>
       /\ R.navs = <<>> /\ route = ""
       /\ R.flags = <<>>
       /\ isSubmitting = FALSE

\* a submission stopped by the last rule: email and password pass, the mobile
\* is not empty and its format is invalid
C4_Witness ==
  /\ lastStep.at = "submit"
  /\ C4_Failing = {4}
  /\ error = MsgMobileInvalid

\* the runs with a remote call outstanding
InFlight == {i \in Attempts : att[i].pc \in {"signUp", "upsert"}}

\* C1 as claimed: in every submission attempt the upsert into clients is
\* attempted if and only if signUp returned a usable identity id, whatever
\* else the response carries.
C1_UpsertIffIdReturned ==
  lastStep.at # "none" =>
    ((lastStep.result.nUpsert > 0) <=>
       /\ lastStep.at \in {"signUp", "upsert"}
       /\ ~lastStep.signUp.threw
       /\ lastStep.signUp.user = "withId")

\* C1 as amended: the upsert is attempted if and only if signUp returned
\* without an error and with a user that has an id.
C1_UpsertIffIdAndNoError ==
  lastStep.at # "none" =>
    ((lastStep.result.nUpsert > 0) <=>
       /\ lastStep.at \in {"signUp", "upsert"}
       /\ ~lastStep.signUp.threw
       /\ ~lastStep.signUp.error.present
       /\ lastStep.signUp.user = "withId")

\* signUp has just returned a user with an id and no error, and the upsert
\* has been issued
C1_Witness ==
  /\ lastStep.at = "signUp"
  /\ lastStep.signUp.user = "withId"
  /\ lastStep.result.pc = "upsert"
  /\ lastStep.result.nUpsert = 1

\* C2: at most one submission of the form is in flight at any time.
C2_OneInFlight == Cardinality(InFlight) <= 1

\* C3: while the page is shown, isSubmitting is true whenever a submission is
\* between its start and its settling (a signUp or upsert call outstanding),
\* and false once every submission has settled.
C3_SubmittingWhileInFlight ==
  mounted =>
    /\ InFlight # {} => isSubmitting
    /\ InFlight = {} => ~isSubmitting

\* C5: a submission navigates at most once, and only after signUp returned no
\* error with a user id and the upsert returned no error; the target is
\* /account/setup exactly when the signUp response carried a session and
\* /signup/check-email exactly when it carried none; no navigation on a
\* validation failure, provider error, missing id, upsert error or exception.
C5_Navigation ==
  lastStep.at # "none" =>
    LET S == lastStep
        R == lastStep.result
        upsertOk == S.at = "upsert" /\ ~S.upsert.threw /\ ~S.upsert.error.present
    IN /\ Len(R.navs) <= 1
       /\ R.navs # <<>> =>
            /\ upsertOk
            /\ ~S.signUp.threw
            /\ ~S.signUp.error.present
            /\ S.signUp.user = "withId"
            /\ (R.navs[1] = "/account/setup") <=> S.signUp.session
            /\ (R.navs[1] = "/signup/check-email") <=> ~S.signUp.session
            /\ route = R.navs[1]
       /\ (upsertOk /\ ~S.pushThrows) => R.navs # <<>>
       /\ (S.at = "upsert" /\ ~upsertOk) => R.navs = <<>>
       /\ S.pushThrows => R.navs = <<>>
       /\ S.at \in {"submit", "signUp"} => R.navs = <<>>

\* a submission whose signUp response carried a session has navigated
C5_Witness ==
  /\ lastStep.at = "upsert"
  /\ lastStep.signUp.session
  /\ lastStep.result.navs = <<"/account/setup">>

\* C6: every failure of a submission attempt ends the attempt with exactly one
\* error message and no exception leaves handleSubmit: a provider error shows
\* its message when non-empty, else the signUp fallback; a missing id shows
\* that fallback; an upsert error shows its message when non-empty, else the
\* upsert fallback; an exception of signUp, upsert or router.push shows the
\* generic message.  A successful attempt sets no error message.
C6_Shown(a) == SelectSeq(a.errors, LAMBDA m : m # "")

C6_Expected(S) ==
  CASE S.at = "signUp" /\ S.signUp.threw ->
         "Something went wrong. Please try again."
    [] S.at = "signUp" /\ ~S.signUp.threw /\ S.signUp.error.present ->
         IF S.signUp.error.message # ""
           THEN S.signUp.error.message
           ELSE "Unable to create your account. Please try again."
    [] S.at = "signUp" /\ ~S.signUp.threw /\ ~S.signUp.error.present
         /\ S.signUp.user # "withId" ->
         "Unable to create your account. Please try again."
    [] S.at = "upsert" /\ S.upsert.threw ->
         "Something went wrong. Please try again."
    [] S.at = "upsert" /\ ~S.upsert.threw /\ S.upsert.error.present ->
         IF S.upsert.error.message # ""
           THEN S.upsert.error.message
           ELSE "Your account was created, but setup failed. Please try logging in."
    [] S.at = "upsert" /\ ~S.upsert.threw /\ ~S.upsert.error.present
         /\ S.pushThrows ->
         "Something went wrong. Please try again."
    [] OTHER -> ""

C6_OneMessage ==
  lastStep.at # "none" =>
    LET S == lastStep
        R == lastStep.result
        expected == C6_Expected(S)
    IN /\ ~R.escaped
       /\ S.at = "submit" =>
            Len(C6_Shown(R)) = (IF R.pc = "invalid" THEN 1 ELSE 0)
       /\ (S.at # "submit" /\ expected # "") =>
            /\ R.pc = "settled"
            /\ R.navs = <<>>
            /\ C6_Shown(R) = <<expected>>
            /\ mounted => error = expected
       /\ (S.at # "submit" /\ expected = "") => C6_Shown(R) = <<>>
       /\ R.navs # <<>> => (R.pc = "settled" /\ R.errors = <<"">>)

\* an upsert error without a message has ended an attempt with the upsert
\* fallback
C6_Witness ==
  /\ lastStep.at = "upsert"
  /\ lastStep.upsert.error.present
  /\ lastStep.upsert.error.message = ""
  /\ error = MsgUpsertFallback

\* C7: within one submission attempt the remote calls are sequential and
\* never retried: signUp is called at most once, upsert at most once and only
\* after signUp has returned, the two are never outstanding together, and a
\* failed upsert is followed by no further call of the attempt.
C7_Calls(a) ==
  /\ a.nSignUp <= 1
  /\ a.nUpsert <= 1
  /\ Len(a.outstanding) <= 1
  /\ a.nUpsert > 0 =>
       /\ a.nSignUp = 1
       /\ \A k \in 1..Len(a.outstanding) : a.outstanding[k].fn # "signUp"
  /\ a.pc \in {"unused", "invalid", "settled"} => a.outstanding = <<>>

C7_Sequential ==
  /\ \A i \in Attempts : C7_Calls(att[i])
  /\ lastStep.at # "none" =>
       LET S == lastStep
           R == lastStep.result
       IN /\ C7_Calls(R)
          /\ R.nUpsert > 0 =>
               (S.at \in {"signUp", "upsert"} /\ ~S.signUp.threw)
          /\ (S.at = "upsert" /\ (S.upsert.threw \/ S.upsert.error.present)) =>
               /\ R.pc = "settled"
               /\ R.outstanding = <<>>
               /\ R.nSignUp = 1
               /\ R.nUpsert = 1

\* an upsert has failed and its attempt has ended
C7_Witness ==
  /\ lastStep.at = "upsert"
  /\ lastStep.upsert.error.present
  /\ lastStep.result.pc = "settled"
  /\ lastStep.result.nUpsert = 1

\* C9: once a submission has issued a navigation, the form issues no further
\* signUp or upsert call.
C9_CallIssued ==
  \/ lastStep.at = "submit" /\ lastStep.result.pc = "signUp"
  \/ lastStep.at = "signUp" /\ lastStep.result.pc = "upsert"

C9_NavigationTerminal == route # "" => ~C9_CallIssued

\* C10: a submission that passed validation eventually concludes, with a
\* navigation issued or an error shown and not both, and isSubmitting is
\* eventually false again, so the form does not stay disabled for ever (as
\* long as the page is shown).
C10_Concludes ==
  /\ \A i \in Attempts : []<>(i \notin InFlight)
  /\ [](lastStep.result.pc = "settled" =>
          ((lastStep.result.navs # <<>>) <=> (C6_Shown(lastStep.result) = <<>>)))
  /\ []<>(~mounted \/ ~isSubmitting)
  /\ []<>(~mounted \/ ~rendered.isSubmitting)

\* a submission has concluded while the form was rendered disabled, and has
\* cleared isSubmitting
C10_Witness ==
  /\ lastStep.result.pc = "settled"
  /\ lastStep.result.flags = <<TRUE, FALSE>>
  /\ mounted
  /\ rendered.isSubmitting
  /\ ~isSubmitting

====
